---- MODULE Spec2Model ----
(***************************************************************************)
(* Model of the obsidian-remote-attachments plugin (src/main.ts): the      *)
(* settings store, the drop listener and the sequential upload pipeline.   *)
(* Strings are sequences of one-character strings; the document buffer is  *)
(* one flat string whose lines are separated by "\n".                      *)
(***************************************************************************)
EXTENDS Integers, Sequences, FiniteSets, TLC

\* ---------------------------------------------------------------- bounds
MaxDrops == 2
MaxUploads == 3
MaxEdits == 1
MaxTicks == 0

\* ------------------------------------------------------- string helpers
NL == "\n"

Min(a, b) == IF a < b THEN a ELSE b

Max(a, b) == IF a > b THEN a ELSE b

\* String.prototype.startsWith
StartsWith(s, p) == Len(s) >= Len(p) /\ SubSeq(s, 1, Len(p)) = p

\* String.prototype.endsWith
EndsWith(s, p) == Len(s) >= Len(p) /\ SubSeq(s, Len(s) - Len(p) + 1, Len(s)) = p

\* 1-based indices of the line breaks of s, ascending
NLIdx(s) == SelectSeq([i \in 1..Len(s) |-> i], LAMBDA i : s[i] = NL)

\* s.split('\n').length - 1
CountNL(s) == Len(NLIdx(s))

\* s.split('\n').pop().length
LastSegLen(s) == IF CountNL(s) = 0 THEN Len(s) ELSE Len(s) - NLIdx(s)[CountNL(s)]

\* decimal rendering of a non-negative number in a template literal
RECURSIVE Digits(_)
Digits(n) ==
    LET d == <<"0", "1", "2", "3", "4", "5", "6", "7", "8", "9">>[(n % 10) + 1]
    IN  IF n < 10 THEN <<d>> ELSE Digits(n \div 10) \o <<d>>

\* s.replace(/^\/+/, '')
RECURSIVE TrimLeadingSlashes(_)
TrimLeadingSlashes(s) ==
    IF s # <<>> /\ Head(s) = "/" THEN TrimLeadingSlashes(Tail(s)) ELSE s

\* s.replace(/\/+$/, '')
RECURSIVE TrimTrailingSlashes(_)
TrimTrailingSlashes(s) ==
    IF s # <<>> /\ s[Len(s)] = "/"
    THEN TrimTrailingSlashes(SubSeq(s, 1, Len(s) - 1))
    ELSE s

\* directory.replace(/^\/+|\/+$/g, '')
TrimSlashes(s) == TrimTrailingSlashes(TrimLeadingSlashes(s))

\* ------------------------------------------------------------- settings
\* the value of a property that an object does not have
Undefined == <<"undefined">>

R2Fields == {"bucketName", "accessKeyId", "secretAccessKey", "endpoint",
             "region", "publicUrl", "directory"}

DEFAULT_SETTINGS ==
    [mySetting |-> <<"d">>,
     r2Config  |-> [bucketName      |-> <<>>,
                    accessKeyId     |-> <<>>,
                    secretAccessKey |-> <<>>,
                    endpoint        |-> <<>>,
                    region          |-> <<"a", "u", "t", "o">>,
                    publicUrl       |-> <<>>,
                    directory       |-> <<>>]]

\* the result of loadData() when nothing was saved yet
Null == [null |-> TRUE]

\* property read obj.k
Get(obj, k) == IF k \in DOMAIN obj THEN obj[k] ELSE Undefined

\* Object.assign({}, a, b): own properties of b overwrite those of a, whole
\* value by whole value; a null source is skipped
ObjectAssign(a, b) ==
    IF b = Null THEN a
    ELSE [k \in (DOMAIN a) \cup (DOMAIN b) |-> IF k \in DOMAIN b THEN b[k] ELSE a[k]]

\* loadSettings
LoadSettings(data) == ObjectAssign(DEFAULT_SETTINGS, data)

\* JavaScript truthiness of a string-or-undefined property
Truthy(v) == v # Undefined /\ v # <<>>

R2(s) == Get(s, "r2Config")

\* a configuration check that forgets the access key
ConfigIncomplete_NoAccessKey(s) ==
    \/ ~Truthy(Get(R2(s), "bucketName"))
    \/ ~Truthy(Get(R2(s), "secretAccessKey"))
    \/ ~Truthy(Get(R2(s), "endpoint"))

\* the guard of the throw in the upload loop
ConfigIncomplete(s) ==
    \/ ~Truthy(Get(R2(s), "bucketName"))
    \/ ~Truthy(Get(R2(s), "accessKeyId"))
    \/ ~Truthy(Get(R2(s), "secretAccessKey"))
    \/ ~Truthy(Get(R2(s), "endpoint"))

\* ----------------------------------------------------------- the buffer
\* offset of the start of line l (0-based line, 0-based offset)
LineFrom(d, l) == IF l = 0 THEN 0 ELSE NLIdx(d)[l]

\* offset of the end of line l
LineTo(d, l) == IF l = CountNL(d) THEN Len(d) ELSE NLIdx(d)[l + 1] - 1

\* editor position -> offset, clipped to the document as the editor does
PosToOffset(d, pos) ==
    IF pos.line < 0 THEN 0
    ELSE IF pos.line > CountNL(d) THEN Len(d)
    ELSE Min(LineFrom(d, pos.line) + Max(0, pos.ch), LineTo(d, pos.line))

InsertAt(s, off, t) == SubSeq(s, 1, off) \o t \o SubSeq(s, off + 1, Len(s))

\* editor.replaceRange(text, pos): a pure insertion at pos
ReplaceRange(d, text, pos) == InsertAt(d, PosToOffset(d, pos), text)

\* ------------------------------------------------------- dropped files
ImagePng == <<"i", "m", "a", "g", "e", "/", "p", "n", "g">>

TextPlain == <<"t", "e", "x", "t", "/", "p", "l", "a", "i", "n">>

\* a declared type that names images without the 'image/' prefix
ImageBare == <<"i", "m", "a", "g", "e">>

ImagePrefix == <<"i", "m", "a", "g", "e", "/">>

\* a File object: id is its identity (its place in the event's FileList)
File(id, name, type) == [id |-> id, name |-> name, type |-> type]

\* the FileLists a drop event may carry
DropChoices ==
    { <<>>,
      <<File(1, <<"t">>, TextPlain), File(2, <<"i">>, ImageBare)>>,
      <<File(1, <<"t">>, TextPlain), File(2, <<"b", NL, "c">>, ImagePng)>>,
      <<File(1, <<"a">>, ImagePng), File(2, <<"a">>, ImagePng)>>,
      <<File(1, <<"a">>, ImagePng), File(2, <<"b", NL, "c">>, ImagePng),
        File(3, <<"c">>, ImagePng)>> }

\* a type test that forgets the slash of the prefix
IsImage_NoSlash(f) == StartsWith(f.type, ImageBare)

\* file.type.startsWith('image/')
IsImage(f) == StartsWith(f.type, ImagePrefix)

\* Array.prototype.filter over the FileList
ImageFiles(fs) == SelectSeq(fs, IsImage)

\* the configurations loadData() may return
FullConfig ==
    [bucketName      |-> <<"b">>,
     accessKeyId     |-> <<"k">>,
     secretAccessKey |-> <<"s">>,
     endpoint        |-> <<"e">>,
     region          |-> <<"r">>,
     publicUrl       |-> <<"p", "/">>,
     directory       |-> <<"/", "d", "/">>]

PersistedChoices ==
    { Null,
      [mySetting |-> <<"m">>, r2Config |-> FullConfig],
      [r2Config |-> [bucketName      |-> <<"b">>,
                     accessKeyId     |-> <<"k">>,
                     secretAccessKey |-> <<"s">>,
                     endpoint        |-> <<"e">>]] }

\* the values a settings text field may be changed to: the user clears it
EditChoices == { <<>> }

\* ------------------------------------------------------------- the state
VARIABLES
    loaded,     \* onload has completed and the drop listener is registered
    persisted,  \* what the host's loadData() returns / saveData() stored
    settings,   \* this.settings
    now,        \* new Date().getTime() when it was last read
    doc,        \* the text of the active editor
    origin,     \* for every character of doc, which insertion wrote it
    batches,    \* one record per drop event: the state of its async handler
    log,        \* puts, insertions and notices, in the order they happened
    edits       \* number of settings edits so far

vars == <<loaded, persisted, settings, now, doc, origin, batches, log, edits>>

Clock0 == 9

InitialDoc == <<"x", "y", NL, "z">>

NoPos == [line |-> 0 - 1, ch |-> 0 - 1]

Entry(t, b, f, kind, text, pos) ==
    [t |-> t, b |-> b, f |-> f, kind |-> kind, text |-> text, pos |-> pos]

\* new Notice(...)
NoticeEntry(b, f, kind) == Entry("notice", b, f, kind, <<>>, NoPos)

\* s3Client.send(new PutObjectCommand(...))
PutEntry(b, f, key) == Entry("put", b, f, "put", key, NoPos)

\* editor.replaceRange(text, pos)
InsEntry(b, f, kind, text, pos) == Entry("ins", b, f, kind, text, pos)

Tag(b, f, kind) == [b |-> b, f |-> f, kind |-> kind]

Tags(n, tag) == [i \in 1..n |-> tag]

\* the caret positions a drop may capture: the start and the end of the text
CursorChoices(d) ==
    { [line |-> 0, ch |-> 0],
      [line |-> CountNL(d), ch |-> LineTo(d, CountNL(d)) - LineFrom(d, CountNL(d))] }

\* remote key of a file
FileName(s, t, f) ==
    LET baseFileName == Digits(t) \o <<"_">> \o f.name
        directory    == Get(R2(s), "directory")
    IN  IF Truthy(directory)
        THEN TrimSlashes(directory) \o <<"/">> \o baseFileName
        ELSE baseFileName

\* public URL of an uploaded file; publicUrl must be a string
FileUrl(s, fileName) ==
    LET publicUrl == Get(R2(s), "publicUrl")
        baseUrl   == IF EndsWith(publicUrl, <<"/">>)
                     THEN SubSeq(publicUrl, 1, Len(publicUrl) - 1)
                     ELSE publicUrl
    IN  baseUrl \o <<"/">> \o fileName

MarkdownLink(f, fileUrl) ==
    IF IsImage(f)
    THEN <<"!", "[">> \o f.name \o <<"]", "(">> \o fileUrl \o <<")">>
    ELSE <<"[">> \o f.name \o <<"]", "(">> \o fileUrl \o <<")">>

\* a cursor update that treats every link as single-line
AdvanceCursor_SingleLine(cur, markdownLink) ==
    [line |-> cur.line, ch |-> cur.ch + Len(markdownLink)]

\* the cursor after a link was inserted at cur
AdvanceCursor(cur, markdownLink) ==
    LET insertedLines  == CountNL(markdownLink)
        lastLineLength == LastSegLen(markdownLink)
    IN  IF insertedLines > 0
        THEN [line |-> cur.line + insertedLines, ch |-> lastLineLength]
        ELSE [line |-> cur.line, ch |-> cur.ch + lastLineLength]

\* a last-file test that compares names instead of File objects
NeedsNewline_ByName(files, f) == Len(files) > 1 /\ f.name # files[Len(files)].name

\* files.length > 1 && file !== files[files.length - 1]
NeedsNewline(files, f) == Len(files) > 1 /\ f # files[Len(files)]

\* The synchronous run of the upload loop from the top of iteration B.idx to
\* the next await (file.arrayBuffer()) or to the end of the loop.  bi is the
\* number of the batch, lg the log so far, s the settings, t the clock.
RECURSIVE RunLoop(_, _, _, _, _)
RunLoop(B, bi, lg, s, t) ==
    IF B.idx > Len(B.files)
    THEN [b |-> [B EXCEPT !.pc = "done"], lg |-> lg]
    ELSE IF ConfigIncomplete(s)
    THEN RunLoop([B EXCEPT !.idx = @ + 1], bi,
                 Append(lg, NoticeEntry(bi, B.idx, "config")), s, t)
    ELSE [b |-> [B EXCEPT !.pc = "reading",
                          !.fileName = FileName(s, t, B.files[B.idx])],
          lg |-> lg]

\* a running cursor that starts at the top of the document
CopyCursor_Top(cursor) == [line |-> 0, ch |-> 0]

\* let currentCursor = { ...cursor }
CopyCursor(cursor) == [line |-> cursor.line, ch |-> cursor.ch]

\* a listener that never misses the view
NoActiveView_Never(activeView) == FALSE

\* if (!activeView)
NoActiveView(activeView) == ~activeView

\* if (!activeFile)
NoActiveFile(activeFile) == ~activeFile

\* The handler state of one drop event.  all is the event's FileList, files
\* its image files, cursor0 the caret captured at the drop, cur the running
\* currentCursor, idx the file the loop is at, fileName the remote key of that
\* file; view and afile record what the handler saw of the active view and
\* the active file (FALSE when it did not get to ask), cfg the configuration
\* at the moment of the drop.
Batch(all, files, pc, prevented, cursor, view, afile, s) ==
    [all |-> all, files |-> files, pc |-> pc, prevented |-> prevented,
     cursor0 |-> cursor, cur |-> CopyCursor(cursor), idx |-> 1, fileName |-> <<>>,
     view |-> view, afile |-> afile, cfg |-> R2(s)]

Init ==
    /\ loaded = FALSE
    /\ persisted \in PersistedChoices
    /\ settings = DEFAULT_SETTINGS
    /\ now = Clock0
    /\ doc = InitialDoc
    /\ origin = Tags(Len(InitialDoc), Tag(0, 0, "init"))
    /\ batches = <<>>
    /\ log = <<>>
    /\ edits = 0

\* onload: loadSettings, then the drop listener is registered
OnLoad ==
    /\ ~loaded
    /\ settings' = LoadSettings(persisted)
    /\ loaded' = TRUE
    /\ UNCHANGED <<persisted, now, doc, origin, batches, log, edits>>

\* a settings text field's onChange: assign the field, then saveSettings
OnChange(field, value) ==
    /\ loaded
    /\ edits < MaxEdits
    /\ LET r2 == R2(settings)
           r2new == [k \in (DOMAIN r2) \cup {field} |->
                        IF k = field THEN value ELSE r2[k]]
       IN  settings' = [settings EXCEPT !.r2Config = r2new]
    /\ persisted' = settings'
    /\ edits' = edits + 1
    /\ UNCHANGED <<loaded, now, doc, origin, batches, log>>

\* the values the clock may show when it is next read, given its last reading
Times == { t \in now..(now + 1) : t <= Clock0 + MaxTicks }

\* number of image files carried by the drop events so far
RECURSIVE Carried(_)
Carried(bs) == IF bs = <<>> THEN 0 ELSE Len(Head(bs).files) + Carried(Tail(bs))

\* the drop listener and, when it gets that far, handleDrop up to its first
\* await
DropEvent(all, activeView, activeFile, cursor, t) ==
    /\ loaded
    /\ Len(batches) < MaxDrops
    /\ Carried(batches) + Len(ImageFiles(all)) <= MaxUploads
    /\ LET bi         == Len(batches) + 1
           imageFiles == ImageFiles(all)
           mk(pc, prevented, c, view, afile) ==
               Batch(all, imageFiles, pc, prevented, c, view, afile, settings)
           run        == RunLoop(mk("start", TRUE, cursor, activeView, activeFile),
                                 bi, log, settings, t)
       IN  IF Len(all) = 0 \/ Len(imageFiles) = 0
           THEN /\ batches' = Append(batches, mk("ignored", FALSE, NoPos, FALSE, FALSE))
                /\ log' = log
           ELSE IF NoActiveView(activeView)
           THEN /\ batches' = Append(batches, mk("noview", TRUE, NoPos, activeView, FALSE))
                /\ log' = Append(log, NoticeEntry(bi, 0, "noview"))
           ELSE IF NoActiveFile(activeFile)
           THEN /\ batches' = Append(batches, mk("nofile", TRUE, cursor, activeView, activeFile))
                /\ log' = Append(log, NoticeEntry(bi, 0, "nofile"))
           ELSE /\ batches' = Append(batches, run.b)
                /\ log' = run.lg
    /\ now' = t
    /\ UNCHANGED <<loaded, persisted, settings, doc, origin, edits>>

\* a catch block that gives up on the rest of the batch
Catch_Abort(bi, kind, lg, t) ==
    /\ batches' = [batches EXCEPT ![bi].pc = "done"]
    /\ log' = Append(lg, NoticeEntry(bi, batches[bi].idx, kind))

\* the catch block of one iteration, then on to the next iteration
Catch(bi, kind, lg, t) ==
    LET B   == batches[bi]
        run == RunLoop([B EXCEPT !.idx = @ + 1], bi,
                       Append(lg, NoticeEntry(bi, B.idx, kind)), settings, t)
    IN  /\ batches' = [batches EXCEPT ![bi] = run.b]
        /\ log' = run.lg

\* file.arrayBuffer() resolved: the put is sent
ReadResolved(bi) ==
    /\ bi \in 1..Len(batches)
    /\ batches[bi].pc = "reading"
    /\ batches' = [batches EXCEPT ![bi].pc = "sending"]
    /\ log' = Append(log, PutEntry(bi, batches[bi].idx, batches[bi].fileName))
    /\ UNCHANGED <<loaded, persisted, settings, now, doc, origin, edits>>

\* file.arrayBuffer() rejected
ReadRejected(bi, t) ==
    /\ bi \in 1..Len(batches)
    /\ batches[bi].pc = "reading"
    /\ Catch(bi, "read", log, t)
    /\ now' = t
    /\ UNCHANGED <<loaded, persisted, settings, doc, origin, edits>>

\* s3Client.send() rejected
SendRejected(bi, t) ==
    /\ bi \in 1..Len(batches)
    /\ batches[bi].pc = "sending"
    /\ Catch(bi, "put", log, t)
    /\ now' = t
    /\ UNCHANGED <<loaded, persisted, settings, doc, origin, edits>>

\* s3Client.send() resolved: URL, link, insertion, cursor, newline, notice,
\* then on to the next iteration
SendResolved(bi, t) ==
    /\ bi \in 1..Len(batches)
    /\ batches[bi].pc = "sending"
    /\ LET B    == batches[bi]
           f    == B.files[B.idx]
       IN  IF Get(R2(settings), "publicUrl") = Undefined
           THEN \* publicUrl.endsWith throws a TypeError
                /\ Catch(bi, "type", log, t)
                /\ UNCHANGED <<doc, origin>>
           ELSE LET link == MarkdownLink(f, FileUrl(settings, B.fileName))
                    cur1 == AdvanceCursor(B.cur, link)
                    doc1 == ReplaceRange(doc, link, B.cur)
                    org1 == InsertAt(origin, PosToOffset(doc, B.cur),
                                     Tags(Len(link), Tag(bi, B.idx, "link")))
                    lg1  == Append(log, InsEntry(bi, B.idx, "link", link, B.cur))
                    nl   == NeedsNewline(B.files, f)
                    cur2 == IF nl THEN [line |-> cur1.line + 1, ch |-> 0] ELSE cur1
                    doc2 == IF nl THEN ReplaceRange(doc1, <<NL>>, cur1) ELSE doc1
                    org2 == IF nl
                            THEN InsertAt(org1, PosToOffset(doc1, cur1),
                                          Tags(1, Tag(bi, B.idx, "newline")))
                            ELSE org1
                    lg2  == IF nl
                            THEN Append(lg1, InsEntry(bi, B.idx, "newline", <<NL>>, cur1))
                            ELSE lg1
                    lg3  == Append(lg2, NoticeEntry(bi, B.idx, "success"))
                    run  == RunLoop([B EXCEPT !.cur = cur2, !.idx = @ + 1],
                                    bi, lg3, settings, t)
                IN  /\ doc' = doc2
                    /\ origin' = org2
                    /\ batches' = [batches EXCEPT ![bi] = run.b]
                    /\ log' = run.lg
    /\ now' = t
    /\ UNCHANGED <<loaded, persisted, settings, edits>>

Next ==
    \/ OnLoad
    \/ \E field \in R2Fields, value \in EditChoices : OnChange(field, value)
    \/ \E all \in DropChoices, activeView \in BOOLEAN, activeFile \in BOOLEAN,
          cursor \in CursorChoices(doc), t \in Times :
            DropEvent(all, activeView, activeFile, cursor, t)
    \/ \E bi \in 1..MaxDrops : ReadResolved(bi)
    \/ \E bi \in 1..MaxDrops, t \in Times : ReadRejected(bi, t)
    \/ \E bi \in 1..MaxDrops, t \in Times : SendResolved(bi, t)
    \/ \E bi \in 1..MaxDrops, t \in Times : SendRejected(bi, t)

Spec == Init /\ [][Next]_vars

\* ============================================================== claims
BatchIds == 1..Len(batches)

\* the log entries of batch bi that satisfy Test, in order
Events(bi, Test(_)) == SelectSeq(log, LAMBDA e : e.b = bi /\ Test(e))

IsPut(e) == e.t = "put"

IsIns(e) == e.t = "ins"

IsLink(e) == e.t = "ins" /\ e.kind = "link"

IsNewline(e) == e.t = "ins" /\ e.kind = "newline"

IsNotice(e) == e.t = "notice"

IsSuccess(e) == e.t = "notice" /\ e.kind = "success"

IsFailure(e) == e.t = "notice" /\ e.kind \in {"config", "read", "put", "type"}

\* the handler got past both active-document checks and into the loop
Started(B) == B.pc \in {"reading", "sending", "done"}

\* the indices of the log entries that satisfy Test
LogIdx(Test(_)) == { i \in 1..Len(log) : Test(log[i]) }

\* the positions of doc written by the insertion tagged tag, ascending
Written(tag) == SelectSeq([i \in 1..Len(doc) |-> i], LAMBDA i : origin[i] = tag)

\* the text those positions hold now
TextNow(tag) == [k \in 1..Len(Written(tag)) |-> doc[Written(tag)[k]]]

RequiredFields == {"bucketName", "accessKeyId", "secretAccessKey", "endpoint"}

\* some required field of configuration cfg is empty or absent
RequiredEmpty(cfg) == \E k \in RequiredFields : Get(cfg, k) \in {<<>>, Undefined}

\* ------------------------------------------------------------------ C9
\* C9: after loadSettings, each of the seven configuration fields holds the
\* persisted value when the persisted data has that field and the default
\* ('auto' for region, the empty string otherwise) when it has not, also when
\* the persisted record holds only some of the fields.  (saveSettings stores
\* this.settings whole, so the relation also holds after every edit.)
C9_FieldwiseMerge ==
    loaded =>
        \A k \in R2Fields :
            Get(R2(settings), k) =
                IF persisted # Null /\ "r2Config" \in DOMAIN persisted
                   /\ k \in DOMAIN persisted.r2Config
                THEN persisted.r2Config[k]
                ELSE DEFAULT_SETTINGS.r2Config[k]

\* ------------------------------------------------------------------ C6
\* C6: a drop event that carries no image-typed file (no files at all, or only
\* files whose type does not start with 'image/') causes no put, no insertion
\* and no notice, and its default handling is not suppressed.
C6_NoImageNoAction ==
    \A bi \in BatchIds :
        (\A i \in 1..Len(batches[bi].all) :
            ~StartsWith(batches[bi].all[i].type, ImagePrefix))
        => /\ Events(bi, LAMBDA e : TRUE) = <<>>
           /\ ~batches[bi].prevented
           /\ \A i \in 1..Len(doc) : origin[i].b # bi

C6_Witness ==
    \E bi \in BatchIds :
        /\ Len(batches[bi].all) = 2
        /\ \A i \in 1..2 : ~StartsWith(batches[bi].all[i].type, ImagePrefix)
        /\ \E bj \in BatchIds : bj < bi /\ batches[bj].all = <<>>

\* ------------------------------------------------------------------ C5
\* C5: when a drop carries at least one image file and no document view is
\* active, one error notice is shown and nothing else happens for that drop
\* event: no put and no insertion.
C5_NoViewAborts ==
    \A bi \in BatchIds :
        (batches[bi].files # <<>> /\ ~batches[bi].view)
        => /\ batches[bi].pc = "noview"
           /\ Events(bi, LAMBDA e : TRUE) = <<NoticeEntry(bi, 0, "noview")>>
           /\ \A i \in 1..Len(doc) : origin[i].b # bi

C5_Witness ==
    \E bi \in BatchIds :
        /\ batches[bi].pc = "noview"
        /\ Len(batches[bi].files) >= 2
        /\ ~ConfigIncomplete(settings)

\* ------------------------------------------------------------------ C3
\* C3: when a required configuration field (bucketName, accessKeyId,
\* secretAccessKey, endpoint) is empty at a drop that reaches the upload loop,
\* every file of the batch fails with a configuration-error notice, no put is
\* invoked and no link is inserted.  (The check is made anew for every file:
\* a file that gets the configuration-error notice has no put and no
\* insertion, also when the field was emptied after the drop.)
C3_IncompleteConfigFailsAll ==
    /\ \A bi \in BatchIds :
        LET B == batches[bi]
        IN  (B.files # <<>> /\ B.view /\ B.afile /\ RequiredEmpty(B.cfg))
            => /\ B.pc = "done"
               /\ Events(bi, LAMBDA e : TRUE) =
                    [i \in 1..Len(B.files) |-> NoticeEntry(bi, i, "config")]
               /\ \A i \in 1..Len(doc) : origin[i].b # bi
    /\ \A n \in LogIdx(LAMBDA e : IsNotice(e) /\ e.kind = "config") :
        Events(log[n].b, LAMBDA e : (IsPut(e) \/ IsIns(e)) /\ e.f = log[n].f) = <<>>

\* a three-file batch dropped while only the access key was empty
C3_Witness ==
    \E bi \in BatchIds :
        LET B == batches[bi]
        IN  /\ Len(B.files) = 3 /\ B.view /\ B.afile
            /\ Get(B.cfg, "accessKeyId") = <<>>
            /\ \A k \in RequiredFields \ {"accessKeyId"} : Truthy(Get(B.cfg, k))

\* the cursor of batch b after its insertion log[i]: where its next insertion
\* is made or, when it made no further insertion, its currentCursor
CursorAfter(b, i) ==
    LET later == { j \in LogIdx(IsIns) : j > i /\ log[j].b = b }
    IN  IF later = {}
        THEN batches[b].cur
        ELSE log[CHOOSE j \in later : \A k \in later : j <= k].pos

\* ------------------------------------------------------------------ C7
\* C7: in a batch of N files, every inserted link of a file other than the
\* last is followed at once by exactly one inserted newline, after which the
\* cursor is at column 0 of the next line; the link of the last file is
\* followed by no newline.  With N = 3 the links of files 1 and 2 get a
\* newline and the link of file 3 gets none.
C7_NewlineBetweenFiles ==
    \A i \in LogIdx(IsLink) :
        LET e    == log[i]
            last == e.f = Len(batches[e.b].files)
            nls  == Events(e.b, LAMBDA x : IsNewline(x) /\ x.f = e.f)
        IN  /\ Len(nls) = IF last THEN 0 ELSE 1
            /\ ~last => /\ i < Len(log)
                        /\ log[i + 1] = nls[1]
                        /\ nls[1].text = <<NL>>
                        /\ CursorAfter(e.b, i + 1) =
                             [line |-> nls[1].pos.line + 1, ch |-> 0]

C7_Witness ==
    \E bi \in BatchIds :
        /\ Len(batches[bi].files) = 3
        /\ batches[bi].pc = "done"
        /\ Len(Events(bi, IsLink)) = 3
        /\ Len(Events(bi, IsNewline)) = 2

\* ------------------------------------------------------------------ C8
\* C8: after a link is inserted at cursor (line, C), the cursor is (line, C+L)
\* when the link is a single line of length L, and (line+K, length of the last
\* line segment of the link) when the link holds K >= 1 line breaks; the next
\* insertion of the batch is made with exactly this cursor.
C8_CursorAfterLink ==
    \A i \in LogIdx(IsLink) :
        LET e      == log[i]
            breaks == { j \in 1..Len(e.text) : e.text[j] = NL }
            K      == Cardinality(breaks)
            lastNL == CHOOSE j \in breaks : \A k \in breaks : k <= j
        IN  CursorAfter(e.b, i) =
                IF K = 0
                THEN [line |-> e.pos.line, ch |-> e.pos.ch + Len(e.text)]
                ELSE [line |-> e.pos.line + K, ch |-> Len(e.text) - lastNL]

\* a batch put a multi-line link and then a further link
C8_Witness ==
    \E i \in LogIdx(IsLink) :
        /\ \E j \in 1..Len(log[i].text) : log[i].text[j] = NL
        /\ \E k \in LogIdx(IsLink) : k > i /\ log[k].b = log[i].b
        /\ \E k \in LogIdx(IsLink) : k < i /\ log[k].b = log[i].b

\* ------------------------------------------------------------------ C1
\* the puts, link insertions and notices of batch bi, in order
Steps(bi) == Events(bi, LAMBDA e : IsPut(e) \/ IsLink(e) \/ IsNotice(e))

\* C1: a drop with N image files, an active document, a configuration whose
\* four required fields are non-empty at every file and no failing upload (no
\* rejected read, no rejected put) performs exactly N puts, each followed by
\* exactly one link insertion for the same file before the next put, and shows
\* exactly N success notices.
C1_AllSucceed ==
    \A bi \in BatchIds :
        LET B == batches[bi]
            N == Len(B.files)
        IN  (/\ N > 0 /\ B.view /\ B.afile /\ B.pc = "done"
             /\ Events(bi, LAMBDA e : e.t = "notice"
                                      /\ e.kind \in {"config", "read", "put"}) = <<>>)
            => /\ Len(Steps(bi)) = 3 * N
               /\ \A k \in 1..N :
                    /\ IsPut(Steps(bi)[3 * k - 2]) /\ Steps(bi)[3 * k - 2].f = k
                    /\ IsLink(Steps(bi)[3 * k - 1]) /\ Steps(bi)[3 * k - 1].f = k
                    /\ IsSuccess(Steps(bi)[3 * k]) /\ Steps(bi)[3 * k].f = k

\* ------------------------------------------------------------------ C2
\* C2: a failing file never aborts the others.  Every file the loop has passed
\* has exactly one notice; a file whose notice is a failure notice has no
\* insertion; a finished batch has passed every file, whichever files failed;
\* and every link that was inserted is still in the buffer, character for
\* character.
C2_FailureIsolated ==
    /\ \A bi \in BatchIds :
        LET B == batches[bi]
        IN  Started(B) =>
            /\ B.pc = "done" => B.idx = Len(B.files) + 1
            /\ B.pc # "done" => B.idx \in 1..Len(B.files)
            /\ \A k \in 1..Len(B.files) :
                LET ns == Events(bi, LAMBDA e : IsNotice(e) /\ e.f = k)
                IN  /\ Len(ns) = IF k < B.idx THEN 1 ELSE 0
                    /\ (ns # <<>> /\ IsFailure(ns[1]))
                         => Events(bi, LAMBDA e : IsIns(e) /\ e.f = k) = <<>>
    /\ \A i \in LogIdx(IsIns) :
        TextNow(Tag(log[i].b, log[i].f, log[i].kind)) = log[i].text

\* a finished three-file batch: the first link went in, the second file
\* failed, the third link went in
C2_Witness ==
    \E bi \in BatchIds :
        LET B == batches[bi]
        IN  /\ Len(B.files) = 3 /\ B.pc = "done"
            /\ Events(bi, LAMBDA e : IsLink(e) /\ e.f = 1) # <<>>
            /\ Events(bi, LAMBDA e : IsFailure(e) /\ e.f = 2) # <<>>
            /\ Events(bi, LAMBDA e : IsLink(e) /\ e.f = 3) # <<>>

\* ------------------------------------------------------------------ C4
\* the puts of a batch are issued in drop-list order, and when a put is issued
\* every earlier put of the batch has completed: its file has its notice and,
\* when that is a success notice, its link is in
PutsInSequence ==
    \A i \in LogIdx(IsPut) :
        \A j \in LogIdx(IsPut) :
            (j < i /\ log[j].b = log[i].b) =>
                /\ log[j].f < log[i].f
                /\ \E n \in LogIdx(IsNotice) :
                    /\ j < n /\ n < i
                    /\ log[n].b = log[j].b /\ log[n].f = log[j].f
                    /\ IsSuccess(log[n]) =>
                        \E l \in LogIdx(IsLink) :
                            j < l /\ l < n /\ log[l].b = log[j].b /\ log[l].f = log[j].f

\* a batch has at most one upload in flight
OneInFlight ==
    \A bi \in BatchIds :
        Cardinality({ i \in LogIdx(IsPut) :
            /\ log[i].b = bi
            /\ ~\E n \in LogIdx(IsNotice) :
                 n > i /\ log[n].b = bi /\ log[n].f = log[i].f }) <= 1

\* the links of a batch stand in the document in drop order
LinksInDropOrder ==
    \A i, j \in LogIdx(IsLink) :
        (log[i].b = log[j].b /\ log[i].f < log[j].f) =>
            LET wi == Written(Tag(log[i].b, log[i].f, "link"))
                wj == Written(Tag(log[j].b, log[j].f, "link"))
            IN  wi[Len(wi)] < wj[1]

\* C4: within one drop batch the files are processed strictly in drop-list
\* order with at most one upload in flight: the put for file i+1 is not issued
\* before the put for file i has completed and, on success, its link has been
\* inserted; so the links of the batch appear in the document in drop order.
C4_SequentialAndOrdered == PutsInSequence /\ OneInFlight /\ LinksInDropOrder

\* ----------------------------------------------------------------- C10
\* the cursor an insertion leaves, from the inserted text alone
Leaves(e) ==
    LET breaks == { j \in 1..Len(e.text) : e.text[j] = NL }
        lastNL == CHOOSE j \in breaks : \A k \in breaks : k <= j
    IN  IF breaks = {}
        THEN [line |-> e.pos.line, ch |-> e.pos.ch + Len(e.text)]
        ELSE [line |-> e.pos.line + Cardinality(breaks), ch |-> Len(e.text) - lastNL]

\* some batch is suspended on an await
SomeInFlight == \E bi \in BatchIds : batches[bi].pc \in {"reading", "sending"}

\* a drop of image files into an active document whose handler runs up to its
\* first await, and is suspended there, within the step of the drop
DropStarts ==
    \E all \in DropChoices, cursor \in CursorChoices(doc), t \in Times :
        /\ ImageFiles(all) # <<>>
        /\ DropEvent(all, TRUE, TRUE, cursor, t)
        /\ batches'[Len(batches) + 1].pc = "reading"
        /\ \A bi \in BatchIds : batches'[bi] = batches[bi]

\* C10: drop batches are not serialized against each other.  While a batch is
\* suspended on an upload a further drop is taken at once (its handler starts
\* in the step of the drop), and every insertion of a batch is made at the
\* cursor the batch computed from the caret captured at its own drop and from
\* its own earlier insertions, whatever other batches wrote in between.
C10_BatchesNotSerialized ==
    /\ (/\ SomeInFlight
        /\ Len(batches) < MaxDrops
        /\ Carried(batches) < MaxUploads
        /\ ~ConfigIncomplete(settings))
       => ENABLED DropStarts
    /\ \A bi \in BatchIds :
        LET ins == Events(bi, IsIns)
        IN  \A k \in 1..Len(ins) :
                ins[k].pos = IF k = 1 THEN batches[bi].cursor0 ELSE Leaves(ins[k - 1])

\* the insertions of two batches interleave: both were in flight together
C10_Witness ==
    \E i, j, k \in LogIdx(IsIns) :
        /\ i < j /\ j < k
        /\ log[i].b = log[k].b
        /\ log[j].b # log[i].b
        /\ batches[log[j].b].cursor0 # [line |-> 0, ch |-> 0]

====
